---- MODULE Spec2Model ----
(***************************************************************************)
(* Model of src/scripts/macros/rest-for-the-night.ts:                      *)
(*   - restForTheNight, an async macro; every action below is one          *)
(*     synchronous segment of it, cut at the awaited host calls;           *)
(*   - DegreeOfSuccessHighlights.listen, a pure DOM-annotation listener.   *)
(***************************************************************************)
EXTENDS Integers, Sequences, FiniteSets, TLC

\* ------------------------------------------------------------------ bounds
MaxHP == 3
MaxLevel == 2
MaxDT == 6
MaxSeverity == 2
MaxInvocations == 2

\* --------------------------------------------------------------- variables
VARIABLES
    actors,              \* host documents: actor id -> live actor data
    staminaVariant,      \* game.pf2e.settings.variants.stamina
    options,             \* the RestForTheNightOptions of the invocation
    pc,                  \* position of restForTheNight
    characters,          \* the filtered selection (line 16)
    idx,                 \* position of the for-of loop in characters
    frame,               \* the locals of the current loop iteration
    messages,            \* PreCreate chat messages (line 38)
    calls,               \* host calls received during this invocation, in order
    notifications,       \* ui.notifications.error calls
    dialogShown,         \* Dialog.confirm was presented
    result,              \* the value the macro resolved to
    before,              \* actors as they were when the macro was invoked
    invocations,         \* number of invocations so far
    roll,                \* the chat message handed to listen
    classList,           \* classes of the .dice-total element
    listened             \* listen has run

restVars == <<actors, staminaVariant, options, pc, characters, idx, frame, messages,
              calls, notifications, dialogShown, result, before, invocations>>
diceVars == <<roll, classList, listened>>
vars == <<restVars, diceVars>>

\* ----------------------------------------------------------------- helpers
Max(a, b) == IF a >= b THEN a ELSE b
Min(a, b) == IF a <= b THEN a ELSE b

\* A JavaScript object literal {} and the assignment o[k] = v
EmptyObject == [k \in {} |-> 0]
SetKey(o, k, v) == [x \in (DOMAIN o) \cup {k} |-> IF x = k THEN v ELSE o[x]]

Range(s) == {s[i] : i \in 1..Len(s)}

\* ------------------------------------------------------------ the documents
\* Embedded items of an actor.  One flat shape for every item type; a field an
\* item type does not have keeps its neutral value.
Item(id, type, category, uses, usesMax, temporary, hasFrequency, per, fvalue, fmax, expended) ==
    [id |-> id, type |-> type, category |-> category,
     uses |-> uses, usesMax |-> usesMax, isTemporary |-> temporary,
     hasFrequency |-> hasFrequency, per |-> per, fvalue |-> fvalue, fmax |-> fmax,
     expended |-> expended]

Wand(id, uses, temporary) ==
    Item(id, "consumable", "wand", uses, 1, temporary, FALSE, "", 0, 0, 0)
Potion(id, temporary) ==
    Item(id, "consumable", "potion", 0, 1, temporary, FALSE, "", 0, 0, 0)
Feat(id, per, fvalue) ==
    Item(id, "feat", "", 0, 0, FALSE, TRUE, per, fvalue, 1, 0)
Action(id, fvalue) ==
    Item(id, "action", "", 0, 0, FALSE, TRUE, "day", fvalue, 1, 0)
Passive(id) ==
    Item(id, "action", "", 0, 0, FALSE, FALSE, "", 0, 0, 0)
SpellcastingEntry(id, expended) ==
    Item(id, "spellcastingEntry", "", 0, 0, FALSE, FALSE, "", 0, 0, expended)

PhysicalTypes == {"consumable", "equipment", "weapon"}

\* An optional pool (stamina, damage taken, resolve, infused reagents, focus)
Pool(value, max) == [present |-> TRUE, value |-> value, max |-> max]
NoPool == [present |-> FALSE, value |-> 0, max |-> 0]

NoConditions == [fatigued |-> 0, doomed |-> 0, drained |-> 0, wounded |-> 0]

\* A character at full recovery, the base every scenario varies
Rested ==
    [type |-> "character", conMod |-> 2, level |-> 1,
     recoveryMultiplier |-> 1, recoveryAddend |-> 0,
     sourceHp |-> MaxHP, hp |-> MaxHP, hpMax |-> MaxHP,
     sp |-> NoPool, dt |-> NoPool, resolve |-> NoPool,
     reagents |-> NoPool, focus |-> NoPool,
     conditions |-> NoConditions,
     items |-> <<>>]

Npc == [Rested EXCEPT !.type = "npc", !.hp = 1, !.sourceHp = 1,
                      !.conditions = [NoConditions EXCEPT !.fatigued = 1]]

WithHp(c, v) == [c EXCEPT !.hp = v, !.sourceHp = v]

\* ------------------------------------------------------ options and selection
Undefined == "undefined"

\* line 15: Array.isArray(options.actors) ? options.actors : [options.actors]
ActorsOf(opts) == IF opts.isArray THEN opts.actors ELSE <<opts.actor>>

\* a?.type
TypeOf(a) == IF a = Undefined THEN Undefined ELSE actors[a].type

\* line 16
IsCharacter(a) == TypeOf(a) = "character"

\* ------------------------------------------------------- pure computations
\* the recovery amount without the floor of 1 on the Constitution modifier
MaxRestoredUnfloored(actor) ==
    actor.conMod * actor.level * actor.recoveryMultiplier + actor.recoveryAddend

\* line 53
MaxRestored(actor) ==
    Max(actor.conMod, 1) * actor.level * actor.recoveryMultiplier + actor.recoveryAddend

\* lines 54-55
HpRestored(actor) ==
    LET hpLost == actor.hpMax - actor.hp
    IN  IF hpLost >= MaxRestored(actor) THEN MaxRestored(actor) ELSE hpLost

\* A localized log line: message key and its interpolated parameters
Statement(key, slug, n) == [key |-> key, slug |-> slug, n |-> n]

\* lines 57-62
HitPointsStatement(hpRestored) ==
    Statement(IF hpRestored = 1 THEN "HitPointsSingle" ELSE "HitPoints", "", hpRestored)

\* line 66
RECOVERABLE_CONDITIONS == <<"doomed", "drained", "fatigued", "wounded">>

\* lines 67-72
NoConditionChanges ==
    [doomed |-> "null", drained |-> "null", fatigued |-> "null", wounded |-> "null"]

\* actor.hasCondition(slug) / actor.getCondition(slug)
HasCondition(actor, slug) == actor.conditions[slug] > 0

\* actor.decreaseCondition(slug, {forceRemove}): one step down, or away entirely
DecreaseCondition(actor, slug, forceRemove) ==
    [actor EXCEPT !.conditions[slug] =
        IF forceRemove \/ slug = "fatigued" \/ @ <= 1 THEN 0 ELSE @ - 1]

\* line 87
ConditionChange(newValue) == IF newValue = 0 THEN "removed" ELSE "reduced"

\* line 97
IsDepletedWand(i) == i.type = "consumable" /\ i.category = "wand" /\ i.uses < i.usesMax

\* line 98
WandUpdate(wand) == [id |-> wand.id, field |-> "system.uses.value", value |-> wand.usesMax]

\* actor.spellcasting.recharge(): restored spell slots and refilled focus pool
IsExpendedEntry(i) == i.type = "spellcastingEntry" /\ i.expended > 0
SlotUpdate(entry) == [id |-> entry.id, field |-> "system.slots", value |-> 0]
Recharge(actor) ==
    LET entries == SelectSeq(actor.items, IsExpendedEntry)
    IN  [itemUpdates |-> [i \in 1..Len(entries) |-> SlotUpdate(entries[i])],
         isNull |-> ~(actor.focus.present /\ actor.focus.value < actor.focus.max),
         focus |-> actor.focus.max]
NoRecharge == [itemUpdates |-> <<>>, isNull |-> TRUE, focus |-> 0]

\* Duration.fromISO(per) in minutes; -1 is an invalid duration
DurationFromISO(per) ==
    CASE per = "PT10M" -> 10
      [] per = "PT1H"  -> 60
      [] per = "PT8H"  -> 480
      [] per = "PT24H" -> 1440
      [] per = "P1W"   -> 10080
      [] OTHER         -> -1

\* lines 121-125
IsAction(i) == i.type = "action"
IsFeat(i) == i.type = "feat"
NeedsFrequencyReset(a) ==
    /\ a.hasFrequency
    /\ \/ a.per \in {"turn", "round", "day"}
       \/ (DurationFromISO(a.per) >= 0 /\ DurationFromISO(a.per) <= DurationFromISO("PT8H"))
    /\ a.fvalue < a.fmax

\* line 130
FrequencyUpdate(a) ==
    [id |-> a.id, field |-> "system.frequency.value", value |-> IF a.hasFrequency THEN a.fmax ELSE 0]

\* line 159
IsTemporaryInventory(i) == i.type \in PhysicalTypes /\ i.isTemporary
IdOf(i) == i.id

\* lines 160-162
HasActorUpdates(updates) ==
    Cardinality((DOMAIN updates.attributes) \cup (DOMAIN updates.resources)) > 0
HasItemUpdates(updates) == Len(updates) > 0
RemoveTempItems(ids) == Len(ids) > 0

\* --------------------------------------------- the per-character plan frame
\* The block-scoped locals of one loop iteration, as one record
\* lines 41-47
NewFrame(actor) ==
    [actorUpdates |-> [attributes |-> [hp |-> [value |-> actor.sourceHp]],
                       resources |-> EmptyObject],
     itemUpdates |-> <<>>,
     statements |-> <<>>,
     maxRestored |-> MaxRestored(actor),
     conditionChanges |-> NoConditionChanges,
     wandRecharged |-> FALSE,
     spellcastingRecharge |-> NoRecharge,
     temporaryItems |-> <<>>]

\* lines 56-63, the plan side; the in-place change of attributes.hp.value is in HitPoints
PlanHitPoints(actor, f) ==
    IF HpRestored(actor) > 0
    THEN [f EXCEPT !.actorUpdates.attributes.hp = [value |-> actor.hp + HpRestored(actor)],
                   !.statements = Append(@, HitPointsStatement(HpRestored(actor)))]
    ELSE f

\* the wand line logged where the wands are queued
PlanWandsLogged(actor, f) ==
    LET wands == SelectSeq(actor.items, IsDepletedWand)
        updates == f.itemUpdates \o [i \in 1..Len(wands) |-> WandUpdate(wands[i])]
    IN  [f EXCEPT !.itemUpdates = updates, !.wandRecharged = FALSE,
                  !.statements = IF Len(updates) > 0
                                 THEN Append(@, Statement("WandsCharges", "", 0)) ELSE @]

\* lines 96-99
PlanWands(actor, f) ==
    LET wands == SelectSeq(actor.items, IsDepletedWand)
        updates == f.itemUpdates \o [i \in 1..Len(wands) |-> WandUpdate(wands[i])]
    IN  [f EXCEPT !.itemUpdates = updates, !.wandRecharged = Len(updates) > 0]

\* lines 102-107
PlanReagents(actor, f) ==
    IF actor.reagents.present /\ actor.reagents.value < actor.reagents.max
    THEN [f EXCEPT !.actorUpdates.resources = SetKey(@, "crafting", actor.reagents.max),
                   !.statements = Append(@, Statement("InfusedReagents", "", 0))]
    ELSE f

\* lines 110-116
PlanSpellcasting(actor, f) ==
    LET recharge == Recharge(actor)
        g == [f EXCEPT !.spellcastingRecharge = recharge,
                       !.itemUpdates = @ \o recharge.itemUpdates]
    IN  IF ~recharge.isNull /\ recharge.focus # 0
        THEN [g EXCEPT !.actorUpdates.resources = SetKey(@, "focus", recharge.focus)]
        ELSE g

\* lines 119-132
PlanFrequencies(actor, f) ==
    LET actionsAndFeats == SelectSeq(actor.items, IsAction) \o SelectSeq(actor.items, IsFeat)
        withFrequency == SelectSeq(actionsAndFeats, NeedsFrequencyReset)
    IN  IF Len(withFrequency) > 0
        THEN [f EXCEPT !.statements = Append(@, Statement("Frequencies", "", 0)),
                       !.itemUpdates = @ \o [i \in 1..Len(withFrequency) |->
                                               FrequencyUpdate(withFrequency[i])]]
        ELSE f

\* lines 139-142
PlanStaminaPoints(actor, f) ==
    LET stamina == IF actor.sp.present THEN actor.sp ELSE Pool(0, 0)
    IN  IF stamina.value < stamina.max
        THEN [f EXCEPT !.actorUpdates.attributes.hp = SetKey(@, "sp", stamina.max),
                       !.statements = Append(@, Statement("StaminaPoints", "", 0))]
        ELSE f

\* damage taken reduced by the recovery amount once, not four times
NewDamageTakenOnce(damageTaken, restored) == Max(0, damageTaken - restored)

\* line 144
NewDamageTaken(damageTaken, restored) == Max(0, damageTaken - restored * 4)

\* line 146: Math.floor(max - ndt / 2)
TempMaxHP(hpMax, ndt) == (2 * hpMax - ndt) \div 2

\* lines 143-151
PlanDamageTaken(actor, f) ==
    LET damageTaken == IF actor.dt.present THEN actor.dt ELSE Pool(0, 0)
        ndt == NewDamageTaken(damageTaken.value, f.maxRestored)
        tmhp == TempMaxHP(actor.hpMax, ndt)
        g == [f EXCEPT !.actorUpdates.attributes.hp = SetKey(@, "dt", ndt),
                       !.statements = Append(@, Statement("TotalDamageTaken", "", tmhp))]
    IN  IF damageTaken.value > 0
        THEN IF g.actorUpdates.attributes.hp["value"] > tmhp
             THEN [g EXCEPT !.actorUpdates.attributes.hp = SetKey(@, "value", tmhp)]
             ELSE g
        ELSE f

\* lines 152-155
PlanResolve(actor, f) ==
    LET resolve == IF actor.resolve.present THEN actor.resolve ELSE Pool(0, 0)
    IN  IF resolve.value < resolve.max
        THEN [f EXCEPT !.actorUpdates.resources = SetKey(@, "resolve", resolve.max),
                       !.statements = Append(@, Statement("Resolve", "", 0))]
        ELSE f

\* lines 135-156
PlanStamina(actor, f, variant) ==
    IF variant
    THEN PlanResolve(actor, PlanDamageTaken(actor, PlanStaminaPoints(actor, f)))
    ELSE f

\* line 159
PlanTemporaryItems(actor, f) ==
    LET temporary == SelectSeq(actor.items, IsTemporaryInventory)
    IN  [f EXCEPT !.temporaryItems = [i \in 1..Len(temporary) |-> IdOf(temporary[i])]]

\* lines 95-162, the synchronous segment between the condition calls and the commit
ComputePlan(actor, f, variant) ==
    PlanTemporaryItems(actor,
      PlanStamina(actor,
        PlanFrequencies(actor,
          PlanSpellcasting(actor,
            PlanReagents(actor,
              PlanWands(actor, f)))), variant))

\* lines 173-176 (the log line), 178-189
TemporaryItemsStatement == Statement("TemporaryItems", "", 0)
RechargeStatements(f) ==
    (IF ~f.spellcastingRecharge.isNull THEN <<Statement("FocusPoints", "", 0)>> ELSE <<>>)
    \o (IF Len(f.spellcastingRecharge.itemUpdates) > 0
        THEN <<Statement("SpellSlots", "", 0)>> ELSE <<>>)
    \o (IF f.wandRecharged THEN <<Statement("WandsCharges", "", 0)>> ELSE <<>>)

\* lines 192-203
RECURSIVE ConditionStatements(_, _, _, _)
ConditionStatements(changes, slugs, status, key) ==
    IF slugs = <<>> THEN <<>>
    ELSE (IF changes[Head(slugs)] = status THEN <<Statement(key, Head(slugs), 0)>> ELSE <<>>)
         \o ConditionStatements(changes, Tail(slugs), status, key)

\* lines 178-203: everything appended to statements after the commit
FinalStatements(f) ==
    f.statements
    \o RechargeStatements(f)
    \o ConditionStatements(f.conditionChanges, RECOVERABLE_CONDITIONS, "reduced", "ConditionReduced")
    \o ConditionStatements(f.conditionChanges, RECOVERABLE_CONDITIONS, "removed", "ConditionRemoved")

\* lines 206-219
ChatMessage(a, stmts) == [author |-> "user", speaker |-> a, awakens |-> a, list |-> stmts]

\* ------------------------------------------------------ host document writes
\* actor.update({system: actorUpdates})
ApplyActorUpdates(actor, updates) ==
    LET hp == updates.attributes.hp
        res == updates.resources
    IN  [actor EXCEPT
            !.hp = hp["value"],
            !.sourceHp = hp["value"],
            !.sp.value = IF "sp" \in DOMAIN hp THEN hp["sp"] ELSE @,
            !.dt.value = IF "dt" \in DOMAIN hp THEN hp["dt"] ELSE @,
            !.reagents.value = IF "crafting" \in DOMAIN res THEN res["crafting"] ELSE @,
            !.focus.value = IF "focus" \in DOMAIN res THEN res["focus"] ELSE @,
            !.resolve.value = IF "resolve" \in DOMAIN res THEN res["resolve"] ELSE @]

\* the flattened keys of an actor update payload
PayloadKeys(updates) ==
    (DOMAIN updates.attributes.hp) \cup (DOMAIN updates.resources)

\* actor.updateEmbeddedDocuments("Item", itemUpdates)
ApplyItemUpdate(item, u) ==
    IF u.id # item.id THEN item
    ELSE CASE u.field = "system.uses.value"      -> [item EXCEPT !.uses = u.value]
           [] u.field = "system.frequency.value" -> [item EXCEPT !.fvalue = u.value]
           [] u.field = "system.slots"           -> [item EXCEPT !.expended = u.value]
           [] OTHER                              -> item
RECURSIVE ApplyItemUpdates(_, _)
ApplyItemUpdates(item, updates) ==
    IF updates = <<>> THEN item
    ELSE ApplyItemUpdates(ApplyItemUpdate(item, Head(updates)), Tail(updates))
UpdateEmbeddedDocuments(actor, updates) ==
    [actor EXCEPT !.items = [i \in DOMAIN @ |-> ApplyItemUpdates(@[i], updates)]]

\* actor.deleteEmbeddedDocuments("Item", ids)
RECURSIVE Without(_, _)
Without(items, ids) ==
    IF items = <<>> THEN <<>>
    ELSE (IF Head(items).id \in Range(ids) THEN <<>> ELSE <<Head(items)>>)
         \o Without(Tail(items), ids)
DeleteEmbeddedDocuments(actor, ids) == [actor EXCEPT !.items = Without(@, ids)]

\* One host call as the host receives it
Call(op, a, slug, force, ids, keys, hp) ==
    [op |-> op, actor |-> a, slug |-> slug, force |-> force, ids |-> ids, keys |-> keys, hp |-> hp]

\* ------------------------------------------------------------------ actions
\* the frame outside the loop
NoFrame == NewFrame(Rested)

cur == characters[idx]

LoopEntry(chars) == IF Len(chars) > 0 THEN "hp" ELSE "create"

\* lines 14-29: up to the error return or the confirmation prompt
Invoke ==
    /\ pc \in {"idle", "done"}
    /\ invocations < MaxInvocations
    /\ invocations' = invocations + 1
    /\ before' = actors
    /\ characters' = SelectSeq(ActorsOf(options), IsCharacter)
    /\ idx' = 1
    /\ messages' = <<>>
    /\ calls' = <<>>
    /\ result' = <<>>
    /\ frame' = NoFrame
    /\ IF Len(ActorsOf(options)) = 0
       THEN /\ notifications' = Append(notifications, "PF2E.ErrorMessage.NoPCTokenSelected")
            /\ dialogShown' = FALSE
            /\ pc' = "done"
       ELSE /\ notifications' = notifications
            /\ dialogShown' = ~options.skipDialog
            /\ pc' = IF options.skipDialog THEN LoopEntry(characters') ELSE "dialog"
    /\ UNCHANGED <<actors, staminaVariant, options, diceVars>>

\* lines 29-36: the user answers the prompt
Confirm ==
    /\ pc = "dialog"
    /\ \E yes \in BOOLEAN : pc' = IF yes THEN LoopEntry(characters) ELSE "done"
    /\ UNCHANGED <<actors, staminaVariant, options, characters, idx, frame, messages, calls,
                   notifications, dialogShown, result, before, invocations, diceVars>>

\* the hit-point block writing the actor at once
HitPointsCommitted ==
    /\ pc = "hp"
    /\ frame' = PlanHitPoints(actors[cur], NewFrame(actors[cur]))
    /\ actors' = [actors EXCEPT ![cur] = ApplyActorUpdates(@, frame'.actorUpdates)]
    /\ calls' = Append(calls, Call("update", cur, "", FALSE, <<>>,
                                   PayloadKeys(frame'.actorUpdates),
                                   frame'.actorUpdates.attributes.hp["value"]))
    /\ pc' = "fatigued"
    /\ UNCHANGED <<staminaVariant, options, characters, idx, messages,
                   notifications, dialogShown, result, before, invocations, diceVars>>

\* lines 40-63
HitPoints ==
    /\ pc = "hp"
    /\ frame' = PlanHitPoints(actors[cur], NewFrame(actors[cur]))
    /\ actors' = IF HpRestored(actors[cur]) > 0
                 THEN [actors EXCEPT ![cur].hp = @ + HpRestored(actors[cur])]
                 ELSE actors
    /\ pc' = "fatigued"
    /\ UNCHANGED <<staminaVariant, options, characters, idx, messages, calls,
                   notifications, dialogShown, result, before, invocations, diceVars>>

\* lines 75-78
Fatigued ==
    /\ pc = "fatigued"
    /\ IF HasCondition(actors[cur], "fatigued")
       THEN /\ actors' = [actors EXCEPT ![cur] = DecreaseCondition(@, "fatigued", FALSE)]
            /\ calls' = Append(calls, Call("decreaseCondition", cur, "fatigued", FALSE, <<>>, {}, 0))
            /\ frame' = [frame EXCEPT !.conditionChanges.fatigued = "removed"]
       ELSE UNCHANGED <<actors, calls, frame>>
    /\ pc' = "doomed"
    /\ UNCHANGED <<staminaVariant, options, characters, idx, messages,
                   notifications, dialogShown, result, before, invocations, diceVars>>

\* lines 81-88, one iteration of the loop over doomed and drained
DoomedDrained ==
    /\ pc \in {"doomed", "drained"}
    /\ IF HasCondition(actors[cur], pc)
       THEN /\ actors' = [actors EXCEPT ![cur] = DecreaseCondition(@, pc, FALSE)]
            /\ calls' = Append(calls, Call("decreaseCondition", cur, pc, FALSE, <<>>, {}, 0))
            /\ frame' = [frame EXCEPT !.conditionChanges[pc] =
                                          ConditionChange(actors[cur].conditions[pc] - 1)]
       ELSE UNCHANGED <<actors, calls, frame>>
    /\ pc' = IF pc = "doomed" THEN "drained" ELSE "wounded"
    /\ UNCHANGED <<staminaVariant, options, characters, idx, messages,
                   notifications, dialogShown, result, before, invocations, diceVars>>

\* wounded removed whatever the hit points
WoundedHealsAlways(actor) == HasCondition(actor, "wounded")

\* line 90
WoundedHeals(actor) == HasCondition(actor, "wounded") /\ actor.hp = actor.hpMax

\* lines 90-93
Wounded ==
    /\ pc = "wounded"
    /\ IF WoundedHeals(actors[cur])
       THEN /\ actors' = [actors EXCEPT ![cur] = DecreaseCondition(@, "wounded", TRUE)]
            /\ calls' = Append(calls, Call("decreaseCondition", cur, "wounded", TRUE, <<>>, {}, 0))
            /\ frame' = [frame EXCEPT !.conditionChanges.wounded = "removed"]
       ELSE UNCHANGED <<actors, calls, frame>>
    /\ pc' = "plan"
    /\ UNCHANGED <<staminaVariant, options, characters, idx, messages,
                   notifications, dialogShown, result, before, invocations, diceVars>>

\* lines 95-162
Plan ==
    /\ pc = "plan"
    /\ frame' = ComputePlan(actors[cur], frame, staminaVariant)
    /\ pc' = "update"
    /\ UNCHANGED <<actors, staminaVariant, options, characters, idx, messages, calls,
                   notifications, dialogShown, result, before, invocations, diceVars>>

\* lines 165-167
UpdateActor ==
    /\ pc = "update"
    /\ IF HasActorUpdates(frame.actorUpdates)
       THEN /\ actors' = [actors EXCEPT ![cur] = ApplyActorUpdates(@, frame.actorUpdates)]
            /\ calls' = Append(calls, Call("update", cur, "", FALSE, <<>>,
                                           PayloadKeys(frame.actorUpdates),
                                           frame.actorUpdates.attributes.hp["value"]))
       ELSE UNCHANGED <<actors, calls>>
    /\ pc' = "updateItems"
    /\ UNCHANGED <<staminaVariant, options, characters, idx, frame, messages,
                   notifications, dialogShown, result, before, invocations, diceVars>>

\* lines 169-171
UpdateItems ==
    /\ pc = "updateItems"
    /\ IF HasItemUpdates(frame.itemUpdates)
       THEN /\ actors' = [actors EXCEPT ![cur] = UpdateEmbeddedDocuments(@, frame.itemUpdates)]
            /\ calls' = Append(calls, Call("updateEmbeddedDocuments", cur, "", FALSE,
                                           [i \in 1..Len(frame.itemUpdates) |->
                                               IdOf(frame.itemUpdates[i])], {}, 0))
       ELSE UNCHANGED <<actors, calls>>
    /\ pc' = "deleteItems"
    /\ UNCHANGED <<staminaVariant, options, characters, idx, frame, messages,
                   notifications, dialogShown, result, before, invocations, diceVars>>

\* lines 173-176
DeleteItems ==
    /\ pc = "deleteItems"
    /\ IF RemoveTempItems(frame.temporaryItems)
       THEN /\ actors' = [actors EXCEPT ![cur] = DeleteEmbeddedDocuments(@, frame.temporaryItems)]
            /\ calls' = Append(calls, Call("deleteEmbeddedDocuments", cur, "", FALSE,
                                           frame.temporaryItems, {}, 0))
            /\ frame' = [frame EXCEPT !.statements = Append(@, TemporaryItemsStatement)]
       ELSE UNCHANGED <<actors, calls, frame>>
    /\ pc' = "compose"
    /\ UNCHANGED <<staminaVariant, options, characters, idx, messages,
                   notifications, dialogShown, result, before, invocations, diceVars>>

\* each chat message created inside the loop
ComposeCreating ==
    /\ pc = "compose"
    /\ frame' = [frame EXCEPT !.statements = FinalStatements(frame)]
    /\ calls' = calls \o <<Call("Hooks.callAll", cur, "", FALSE, <<>>, {}, 0),
                           Call("createDocuments", "", "", FALSE, <<cur>>, {}, 0)>>
    /\ messages' = Append(messages, ChatMessage(cur, FinalStatements(frame)))
    /\ IF idx < Len(characters)
       THEN idx' = idx + 1 /\ pc' = "hp"
       ELSE idx' = idx /\ pc' = "create"
    /\ UNCHANGED <<actors, staminaVariant, options, characters,
                   notifications, dialogShown, result, before, invocations, diceVars>>

\* lines 178-220: the remaining log lines, the hook, the queued message, the next iteration
Compose ==
    /\ pc = "compose"
    /\ frame' = [frame EXCEPT !.statements = FinalStatements(frame)]
    /\ calls' = Append(calls, Call("Hooks.callAll", cur, "", FALSE, <<>>, {}, 0))
    /\ messages' = Append(messages, ChatMessage(cur, FinalStatements(frame)))
    /\ IF idx < Len(characters)
       THEN idx' = idx + 1 /\ pc' = "hp"
       ELSE idx' = idx /\ pc' = "create"
    /\ UNCHANGED <<actors, staminaVariant, options, characters,
                   notifications, dialogShown, result, before, invocations, diceVars>>

\* line 222
CreateDocuments ==
    /\ pc = "create"
    /\ calls' = Append(calls, Call("createDocuments", "", "", FALSE,
                                   [i \in 1..Len(messages) |-> messages[i].speaker], {}, 0))
    /\ result' = messages
    /\ pc' = "done"
    /\ UNCHANGED <<actors, staminaVariant, options, characters, idx, frame, messages,
                   notifications, dialogShown, before, invocations, diceVars>>

\* ---------------------------------------------- DegreeOfSuccessHighlights
\* lines 238-242
ShouldHighlight(m) ==
    /\ m.isCheckRoll
    /\ m.isContentVisible
    /\ (m.isGM \/ m.showBreakdown)
    /\ ~m.rerollIndicator

\* line 246
IsHighlightedDie(m) ==
    /\ m.hasDice
    /\ m.isDie
    /\ ((m.faces = 6 /\ m.number = 3) \/ m.faces = 20)

\* line 251
IsActive(r) == r.active
ActiveResults(m) == SelectSeq(m.results, IsActive)

\* lines 252-256
HighlightClass(m) ==
    LET results == ActiveResults(m)
    IN  IF \A i \in 1..Len(results) : results[i].result = m.faces * m.number
        THEN "success"
        ELSE IF \A i \in 1..Len(results) : results[i].result = m.number
             THEN "failure"
             ELSE "none"

\* lines 236-257
Listen ==
    /\ ~listened
    /\ listened' = TRUE
    /\ classList' =
          IF ShouldHighlight(roll) /\ IsHighlightedDie(roll) /\ roll.hasDiceTotal
             /\ HighlightClass(roll) # "none"
          THEN classList \cup {HighlightClass(roll)}
          ELSE classList
    /\ UNCHANGED <<roll, restVars>>

\* ------------------------------------------------------------ initial states
ActorIds == {"a1", "a2", "n1"}

ConMods == {0, 2}
Levels == 1..MaxLevel
Multipliers == {1, 2}
Addends == {0, 1}
Severities == 0..MaxSeverity
HpValues == 0..MaxHP
DamageTakenPools == {NoPool} \cup {Pool(d, 0) : d \in 0..MaxDT}
Pools == {NoPool, Pool(0, 1), Pool(1, 1)}
Pers == {"day", "PT8H", "PT24H"}

\* hit-point recovery against the wounded condition
WoundedCharacters ==
    {[WithHp(Rested, h) EXCEPT !.conMod = c, !.level = l, !.recoveryMultiplier = m,
                               !.recoveryAddend = d, !.conditions.wounded = w] :
        h \in HpValues, c \in ConMods, l \in Levels, m \in Multipliers, d \in Addends,
        w \in {0, MaxSeverity}}

\* hit-point recovery against the stamina variant's damage taken
DamagedCharacters ==
    {[WithHp(Rested, h) EXCEPT !.conMod = c, !.level = l, !.recoveryMultiplier = m,
                               !.recoveryAddend = d, !.dt = t] :
        h \in HpValues, c \in ConMods, l \in Levels, m \in Multipliers, d \in Addends,
        t \in DamageTakenPools}

\* the four recoverable conditions
AfflictedCharacters ==
    {[WithHp(Rested, h) EXCEPT !.conditions = [fatigued |-> f, doomed |-> d,
                                               drained |-> r, wounded |-> w]] :
        h \in {0, MaxHP - 1, MaxHP}, f \in {0, 1}, d \in Severities, r \in Severities,
        w \in Severities}

\* the optional pools, absent, depleted or full
PooledCharacters ==
    {[Rested EXCEPT !.reagents = g, !.focus = f, !.sp = s, !.resolve = r, !.dt = t] :
        g \in Pools, f \in Pools, s \in Pools, r \in Pools,
        t \in {NoPool, Pool(0, 0), Pool(1, 0)}}

\* wands, temporary items and frequencies
EquippedCharacters ==
    {[Rested EXCEPT !.items = <<Wand("w1", u, wt), Potion("p1", pt), Feat("f1", per, v),
                                Passive("x1"), Action("c1", v)>>] :
        u \in {0, 1}, wt \in BOOLEAN, pt \in BOOLEAN, per \in Pers, v \in {0, 1}}

\* every log line present or absent, independently
LoggedCharacters ==
    {[WithHp(Rested, h) EXCEPT
         !.reagents = Pool(g, 1), !.focus = Pool(f, 1),
         !.sp = Pool(s, 1), !.dt = Pool(1 - s, 0), !.resolve = Pool(s, 1),
         !.conditions.doomed = d, !.conditions.fatigued = t,
         !.items = <<Wand("w1", u, FALSE), Potion("p1", pt), Feat("f1", "day", v),
                     SpellcastingEntry("s1", e)>>] :
        h \in {MaxHP - 1, MaxHP}, g \in {0, 1}, f \in {0, 1}, s \in {0, 1},
        d \in Severities, t \in {0, 1}, u \in {0, 1}, pt \in BOOLEAN, v \in {0, 1},
        e \in {0, 1}}

Characters ==
    WoundedCharacters \cup DamagedCharacters \cup AfflictedCharacters
    \cup PooledCharacters \cup EquippedCharacters \cup LoggedCharacters

\* the characters resting in a group
Companions ==
    {Rested,
     [WithHp(Rested, 0) EXCEPT !.conditions = [fatigued |-> 1, doomed |-> MaxSeverity,
                                               drained |-> 1, wounded |-> 1],
                               !.items = <<Wand("w2", 0, TRUE)>>],
     [Rested EXCEPT !.conditions.wounded = 1, !.reagents = Pool(0, 1),
                    !.items = <<Potion("p2", TRUE), Feat("f2", "day", 0)>>]}

Option(isArray, list, one, skip) ==
    [isArray |-> isArray, actors |-> list, actor |-> one, skipDialog |-> skip]

Selections ==
    {<<>>} \cup {<<a>> : a \in ActorIds}
    \cup {s \in {<<a, b>> : a \in ActorIds, b \in ActorIds} : s[1] # s[2]}

Options ==
    {Option(TRUE, sel, Undefined, skip) : sel \in Selections, skip \in BOOLEAN}
    \cup {Option(FALSE, <<>>, a, skip) : a \in {"a1", "n1", Undefined}, skip \in BOOLEAN}

\* a lone character is drawn from the full space, a group from the companions
Cast(opts) == IF ActorsOf(opts) = <<"a1">> THEN Characters ELSE Companions

Selected(opts, a) == a \in Range(ActorsOf(opts))

DefaultRoll ==
    [isCheckRoll |-> FALSE, isContentVisible |-> FALSE, isGM |-> FALSE,
     showBreakdown |-> FALSE, rerollIndicator |-> FALSE, hasDice |-> FALSE,
     isDie |-> FALSE, faces |-> 20, number |-> 1, results |-> <<>>, hasDiceTotal |-> FALSE]

InitDiceIdle ==
    /\ roll = DefaultRoll
    /\ classList = {}
    /\ listened = TRUE

InitRestIdle(opts, variant, c1, c2) ==
    /\ actors = [a \in ActorIds |-> IF a = "a1" THEN c1 ELSE IF a = "a2" THEN c2 ELSE Npc]
    /\ staminaVariant = variant
    /\ options = opts
    /\ pc = "idle"
    /\ characters = <<>>
    /\ idx = 1
    /\ frame = NoFrame
    /\ messages = <<>>
    /\ calls = <<>>
    /\ notifications = <<>>
    /\ dialogShown = FALSE
    /\ result = <<>>
    /\ before = actors
    /\ invocations = 0

Init ==
    /\ \E opts \in Options, variant \in BOOLEAN :
         \E c1 \in Cast(opts), c2 \in Companions :
            /\ Selected(opts, "a1") \/ c1 = Rested
            /\ Selected(opts, "a2") \/ c2 = Rested
            /\ InitRestIdle(opts, variant, c1, c2)
    /\ InitDiceIdle

Next ==
    \/ Invoke
    \/ Confirm
    \/ HitPoints
    \/ Fatigued
    \/ DoomedDrained
    \/ Wounded
    \/ Plan
    \/ UpdateActor
    \/ UpdateItems
    \/ DeleteItems
    \/ Compose
    \/ CreateDocuments

Spec == Init /\ [][Next]_vars

\* ---- the roll highlighter, on every chat card in the bounded space
DieShapes == {<<20, 1>>, <<20, 2>>, <<6, 3>>, <<6, 2>>, <<8, 1>>}
FaceValues(faces) == IF faces = 6 THEN 1..6 ELSE {1, 2, 3, faces - 1, faces}
\* only a d20 rolled twice keeps one die and discards the other
Discards(faces, number) == IF faces = 20 /\ number > 1 THEN BOOLEAN ELSE {TRUE}
Results(faces, number) ==
    [1..number -> [result : FaceValues(faces), active : Discards(faces, number)]]

RollsOf(faces, number) ==
    {[isCheckRoll |-> c, isContentVisible |-> v, isGM |-> g, showBreakdown |-> b,
      rerollIndicator |-> r, hasDice |-> TRUE, isDie |-> TRUE,
      faces |-> faces, number |-> number, results |-> rs, hasDiceTotal |-> t] :
        c \in BOOLEAN, v \in BOOLEAN, g \in BOOLEAN, b \in BOOLEAN, r \in BOOLEAN,
        t \in BOOLEAN, rs \in Results(faces, number)}

\* a first term that is not a Die, and a roll without dice
OtherRolls ==
    {[DefaultRoll EXCEPT !.isCheckRoll = TRUE, !.isContentVisible = TRUE, !.isGM = TRUE,
                         !.hasDiceTotal = TRUE, !.hasDice = d, !.isDie = FALSE,
                         !.results = <<[result |-> 20, active |-> TRUE]>>] : d \in BOOLEAN}

InitDice ==
    /\ InitRestIdle(Option(TRUE, <<>>, Undefined, TRUE), FALSE, Rested, Rested)
    /\ \/ \E shape \in DieShapes : roll \in RollsOf(shape[1], shape[2])
       \/ roll \in OtherRolls
    /\ classList = {}
    /\ listened = FALSE

NextDice == Listen

SpecDice == InitDice /\ [][NextDice]_vars

\* =================================================================== claims
\* What the claims speak about, stated independently of the plan operators
Selection == ActorsOf(options)
NoCharacterSelected == \A i \in 1..Len(Selection) : ~IsCharacter(Selection[i])

BatchedWrites == {"update", "updateEmbeddedDocuments", "deleteEmbeddedDocuments"}
ConditionCalls == {"decreaseCondition"}

CallsOf(a, ops) == {i \in 1..Len(calls) : calls[i].actor = a /\ calls[i].op \in ops}

RecoveryAmount(c) ==
    (IF c.conMod > 1 THEN c.conMod ELSE 1) * c.level * c.recoveryMultiplier + c.recoveryAddend
HpLost(c) == c.hpMax - c.hp
Restored(c) == IF HpLost(c) < RecoveryAmount(c) THEN HpLost(c) ELSE RecoveryAmount(c)
HpAfterRecovery(c) == IF Restored(c) > 0 THEN c.hp + Restored(c) ELSE c.hp

LinesOf(list, keys) == {i \in 1..Len(list) : list[i].key \in keys}
HpKeys == {"HitPoints", "HitPointsSingle"}
StaminaKeys == {"StaminaPoints", "TotalDamageTaken", "Resolve"}

\* C1: a selection without any character reports the error and does nothing
\* else: no prompt, no host call of any kind, an empty result.
C1_NoCharacterNoWork ==
    (pc # "idle" /\ NoCharacterSelected) =>
        /\ Len(notifications) = invocations
        /\ ~dialogShown
        /\ calls = <<>>
        /\ result = <<>>

\* C2: a character that is fully recovered when the macro is invoked gets an
\* empty log and none of the three batched writes, on every invocation.
FullyRecovered(c) ==
    /\ c.hp = c.hpMax
    /\ c.conditions = NoConditions
    /\ c.sp.value >= c.sp.max /\ c.resolve.value >= c.resolve.max /\ c.dt.value = 0
    /\ c.reagents.value >= c.reagents.max /\ c.focus.value >= c.focus.max
    /\ \A i \in 1..Len(c.items) :
          /\ ~c.items[i].isTemporary
          /\ c.items[i].uses >= c.items[i].usesMax
          /\ c.items[i].fvalue >= c.items[i].fmax
          /\ c.items[i].expended = 0
C2_RestedNoWrites ==
    \A k \in 1..Len(messages) :
        FullyRecovered(before[messages[k].speaker]) =>
            /\ messages[k].list = <<>>
            /\ CallsOf(messages[k].speaker, BatchedWrites) = {}

\* C3: in every log, the lines keep the order HP, reagents, frequencies,
\* temporary items, focus, spell slots, wands, reduced conditions, removed
\* conditions, whichever of them are present.
Rank(key) ==
    CASE key \in HpKeys            -> 1
      [] key = "InfusedReagents"  -> 2
      [] key = "Frequencies"      -> 3
      [] key = "TemporaryItems"   -> 4
      [] key = "FocusPoints"      -> 5
      [] key = "SpellSlots"       -> 6
      [] key = "WandsCharges"     -> 7
      [] key = "ConditionReduced" -> 8
      [] key = "ConditionRemoved" -> 9
      [] OTHER                    -> 0
InOrder(list) ==
    \A i \in 1..Len(list), j \in 1..Len(list) :
        (i < j /\ Rank(list[i].key) > 0 /\ Rank(list[j].key) > 0)
            => Rank(list[i].key) <= Rank(list[j].key)
C3_LogOrder ==
    /\ InOrder(frame.statements)
    /\ \A k \in 1..Len(messages) : InOrder(messages[k].list)
C3_Witness ==
    \E k \in 1..Len(messages) :
        {Rank(messages[k].list[i].key) : i \in 1..Len(messages[k].list)} \ {0} = 1..9

\* C4: without the stamina variant, the HP written is currentHP plus
\* min(hpLost, max(conMod,1)*level*multiplier+addend) when that is positive,
\* with exactly one HP line (singular iff 1); otherwise no HP line and the
\* same HP.
C4_HitPoints ==
    ~staminaVariant =>
        \A k \in 1..Len(messages) :
            LET a == messages[k].speaker
                r == Restored(before[a])
                list == messages[k].list
                lines == LinesOf(list, HpKeys)
            IN  /\ \A i \in CallsOf(a, {"update"}) : calls[i].hp = HpAfterRecovery(before[a])
                /\ IF r > 0
                   THEN /\ CallsOf(a, {"update"}) # {}
                        /\ Cardinality(lines) = 1
                        /\ \A i \in lines : /\ list[i].n = r
                                            /\ (list[i].key = "HitPointsSingle") <=> (r = 1)
                   ELSE /\ lines = {}
                        /\ actors[a].hp = before[a].hp
C4_Witness ==
    /\ ~staminaVariant
    /\ \E k \in 1..Len(messages) :
          /\ Restored(before[messages[k].speaker]) > 1
          /\ HpLost(before[messages[k].speaker]) > RecoveryAmount(before[messages[k].speaker])
          /\ before[messages[k].speaker].conMod < 1
          /\ LinesOf(messages[k].list, HpKeys) # {}

\* C5: wounded is force-removed exactly when the character has it and its HP
\* after the hit-point step equals max HP; otherwise no call and no log line
\* for wounded; its record is never "reduced".
WoundedCalls(a) == {i \in CallsOf(a, ConditionCalls) : calls[i].slug = "wounded"}
WoundedLines(list) == {i \in 1..Len(list) : list[i].slug = "wounded"}
ShouldRemoveWounded(c) == c.conditions.wounded > 0 /\ HpAfterRecovery(c) = c.hpMax
C5_Wounded ==
    /\ frame.conditionChanges.wounded # "reduced"
    /\ \A i \in 1..Len(calls) :
          (calls[i].op \in ConditionCalls /\ calls[i].slug = "wounded")
              => (calls[i].force /\ ShouldRemoveWounded(before[calls[i].actor]))
    /\ \A k \in 1..Len(messages) :
          LET a == messages[k].speaker
              list == messages[k].list
          IN  IF ShouldRemoveWounded(before[a])
              THEN /\ Cardinality(WoundedCalls(a)) = 1
                   /\ Cardinality(WoundedLines(list)) = 1
                   /\ \A i \in WoundedLines(list) : list[i].key = "ConditionRemoved"
                   /\ actors[a].conditions.wounded = 0
              ELSE /\ WoundedCalls(a) = {}
                   /\ WoundedLines(list) = {}
                   /\ actors[a].conditions.wounded = before[a].conditions.wounded
C5_Witness ==
    \E k \in 1..Len(messages) :
        /\ before[messages[k].speaker].conditions.wounded > 1
        /\ before[messages[k].speaker].hp < before[messages[k].speaker].hpMax
        /\ WoundedCalls(messages[k].speaker) # {}

\* C6: every temporary item is deleted through the one batched delete and no
\* temporary item's id is in the payload of the batched item update.
TemporaryIds(c) == {c.items[i].id : i \in {j \in 1..Len(c.items) : c.items[j].isTemporary}}
C6_TemporaryDeletedNotUpdated ==
    /\ \A i \in 1..Len(calls) :
          calls[i].op = "updateEmbeddedDocuments"
              => Range(calls[i].ids) \cap TemporaryIds(before[calls[i].actor]) = {}
    /\ \A k \in 1..Len(messages) :
          LET a == messages[k].speaker
              deletes == CallsOf(a, {"deleteEmbeddedDocuments"})
          IN  TemporaryIds(before[a]) # {}
                  => /\ Cardinality(deletes) = 1
                     /\ \A i \in deletes : Range(calls[i].ids) = TemporaryIds(before[a])

\* C7: on a highlighted d20 or 3d6 the total is marked success exactly when
\* the active results sum to the maximum, failure exactly when they sum to the
\* minimum, never both.
RECURSIVE SumOf(_)
SumOf(results) == IF results = <<>> THEN 0 ELSE Head(results).result + SumOf(Tail(results))
ActiveTotal(m) == SumOf(SelectSeq(m.results, IsActive))
ActiveCount(m) == Len(SelectSeq(m.results, IsActive))
C7_Highlight ==
    (listened /\ ShouldHighlight(roll) /\ IsHighlightedDie(roll) /\ roll.hasDiceTotal) =>
        /\ ("success" \in classList) <=> (ActiveTotal(roll) = roll.faces * ActiveCount(roll))
        /\ ("failure" \in classList) <=> (ActiveTotal(roll) = 1 * ActiveCount(roll))
        /\ ~({"success", "failure"} \subseteq classList)

\* C8 as stated: while a character's plan is still being read, the host has
\* received no call for it and its live data is as it was.
ReadingPcs == {"fatigued", "doomed", "drained", "wounded", "plan"}
C8_NoMutationBeforePlan ==
    pc \in ReadingPcs =>
        /\ CallsOf(cur, BatchedWrites \cup ConditionCalls) = {}
        /\ actors[cur] = before[cur]

\* C8 amended: the three batched writes of a character come only after its
\* plan is complete; before that, the only changes are the in-place HP
\* increase and the condition calls of the condition step.
PositionOf(a) == CHOOSE k \in 1..Len(characters) : characters[k] = a
Planned(a) ==
    /\ a \in Range(characters)
    /\ \/ PositionOf(a) < idx
       \/ PositionOf(a) = idx /\ pc \in {"update", "updateItems", "deleteItems", "compose",
                                         "create", "done"}
C8_BatchedWritesAfterPlan ==
    /\ \A i \in 1..Len(calls) : calls[i].op \in BatchedWrites => Planned(calls[i].actor)
    /\ pc \in ReadingPcs =>
          /\ [actors[cur] EXCEPT !.hp = before[cur].hp, !.conditions = before[cur].conditions]
                = before[cur]
          /\ actors[cur].hp = HpAfterRecovery(before[cur])
C8_Witness ==
    /\ pc = "plan"
    /\ CallsOf(cur, ConditionCalls) # {}
    /\ actors[cur].hp > before[cur].hp
    /\ frame.itemUpdates = <<>>

\* C9 as stated: every host operation of a character, the creation of its chat
\* message included, precedes every host operation of the characters after it.
CharacterOps == BatchedWrites \cup ConditionCalls
OwnersOf(call) ==
    IF call.op = "createDocuments" THEN Range(call.ids)
    ELSE IF call.op \in CharacterOps THEN {call.actor} ELSE {}
C9_NoInterleaving ==
    \A i \in 1..Len(calls), j \in 1..Len(calls) :
        i < j => \A x \in OwnersOf(calls[i]), y \in OwnersOf(calls[j]) :
                     PositionOf(x) <= PositionOf(y)

\* C9 amended: the condition changes and batched writes of a character all
\* precede those of the characters after it; the chat messages are created
\* together, by one call that follows every other host call.
C9_WritesInTurnMessagesLast ==
    /\ \A i \in 1..Len(calls), j \in 1..Len(calls) :
          (i < j /\ calls[i].op \in CharacterOps /\ calls[j].op \in CharacterOps)
              => PositionOf(calls[i].actor) <= PositionOf(calls[j].actor)
    /\ \A i \in 1..Len(calls) :
          calls[i].op = "createDocuments" => (i = Len(calls) /\ calls[i].ids = characters)
    /\ pc = "done" /\ Len(messages) > 0
          => (calls # <<>> /\ calls[Len(calls)].op = "createDocuments")
C9_Witness ==
    /\ pc = "done"
    /\ Len(characters) = 2
    /\ \A a \in Range(characters) : Cardinality(CallsOf(a, CharacterOps)) > 1

\* C10: with the stamina variant and damage taken dt > 0 the plan sets damage
\* taken to max(0, dt - 4*recoveryAmount), logs the ceiling
\* floor(maxHP - newDT/2) and writes min(HP after recovery, ceiling); with
\* dt = 0 there is no damage-taken field and no clamp; without the variant no
\* stamina, damage-taken or resolve field is in the plan.
ReducedDT(c) ==
    IF c.dt.value - 4 * RecoveryAmount(c) > 0 THEN c.dt.value - 4 * RecoveryAmount(c) ELSE 0
Ceiling(c) ==
    CHOOSE m \in (0 - MaxDT - MaxHP)..c.hpMax :
        2 * m <= 2 * c.hpMax - ReducedDT(c) /\ 2 * (m + 1) > 2 * c.hpMax - ReducedDT(c)
C10_Stamina ==
    \A k \in 1..Len(messages) :
        LET a == messages[k].speaker
            c == before[a]
            list == messages[k].list
            ups == CallsOf(a, {"update"})
            dtLines == LinesOf(list, {"TotalDamageTaken"})
        IN  /\ ups # {}
            /\ IF ~staminaVariant
               THEN /\ \A i \in ups : calls[i].keys \cap {"sp", "dt", "resolve"} = {}
                    /\ LinesOf(list, StaminaKeys) = {}
                    /\ actors[a].dt = c.dt /\ actors[a].sp = c.sp /\ actors[a].resolve = c.resolve
               ELSE IF c.dt.value > 0
                    THEN /\ \A i \in ups :
                               /\ "dt" \in calls[i].keys
                               /\ calls[i].hp = Min(HpAfterRecovery(c), Ceiling(c))
                         /\ actors[a].dt.value = ReducedDT(c)
                         /\ Cardinality(dtLines) = 1
                         /\ \A i \in dtLines : list[i].n = Ceiling(c)
                    ELSE /\ \A i \in ups :
                               /\ "dt" \notin calls[i].keys
                               /\ calls[i].hp = HpAfterRecovery(c)
                         /\ dtLines = {}
C10_Witness ==
    /\ staminaVariant
    /\ \E k \in 1..Len(messages) :
          LET c == before[messages[k].speaker]
          IN  /\ ReducedDT(c) % 2 = 1
              /\ Ceiling(c) < HpAfterRecovery(c)
              /\ \E i \in CallsOf(messages[k].speaker, {"update"}) : calls[i].hp = Ceiling(c)

====
